---------------------------- MODULE Spec2Model ----------------------------
(***************************************************************************)
(* A model of deploy/helper.py: the page fetcher get_scraping_result, its  *)
(* crawling variant get_crawling_scraping_result, the helpers              *)
(* is_vertical_scrollbar_present and wait_until_page_ready, and the        *)
(* session bootstrap get_webdriver.                                        *)
(*                                                                         *)
(* The program is single-threaded: op names the function the caller is     *)
(* in and pc the statement it is at.  The browser (the Selenium driver and *)
(* the Chrome behind it) is the environment: its pages load, its extension *)
(* opens a tab, and each of its commands may raise.  None is the string    *)
(* "None"; an exception is the string of its description and its class is  *)
(* read off by the Is... operators; a returned value is held in the set    *)
(* ret (empty while nothing was returned).  The timestamp the result       *)
(* record carries (dt.now()) is left out of the record.                    *)
(***************************************************************************)
EXTENDS Naturals, Sequences, FiniteSets

VARIABLES
    \* the browser session
    driver,            \* TRUE once get_webdriver has returned the session
    handles,           \* driver.window_handles
    current,           \* the window the session is switched to
    ext,               \* the ad-block extension's welcome tab
    page,              \* the url of the current page
    readyState,        \* document.readyState
    scrollHeight,      \* document.documentElement.scrollHeight
    clientHeight,      \* document.documentElement.clientHeight
    scrollY,           \* the scroll position
    \* the program
    op,                \* the function being executed, "idle" between calls
    pc,                \* the statement it is at
    web_url, is_gambling_site,
    is_error, scraped_elements, exception_raised,
    scroll_height, viewport_height,
    current_handles,   \* the handles EC.new_window_is_opened was given
    clock,             \* time elapsed in the running WebDriverWait
    exc,               \* the exception in flight
    failed,            \* the exception the running call raised, None if none
    outcome,           \* "running", "returned" or "raised" (to the caller)
    ret,               \* the value returned
    \* history of the running call
    cmds,              \* the browser commands and pauses issued
    slept,             \* time spent in time.sleep
    observed,          \* what the last ready-state poll reported
    openedAt,          \* the wait's clock when the welcome tab opened
    openedEarly        \* the welcome tab opened before the handles were read

browser == <<driver, handles, current, ext, page, readyState,
             scrollHeight, clientHeight, scrollY>>
locals == <<web_url, is_gambling_site, is_error, scraped_elements,
            exception_raised, scroll_height, viewport_height,
            current_handles>>
history == <<cmds, slept, observed, openedAt, openedEarly>>
vars == <<browser, op, pc, locals, clock, exc, failed, outcome, ret, history>>

(***************************************************************************)
(* Bounds of the model.                                                    *)
(***************************************************************************)
MaxHeight == 2      \* heights range over 0..MaxHeight
MaxTick == 2        \* one poll-and-sleep round of a wait takes 1..MaxTick

(***************************************************************************)
(* Constants of the program.                                               *)
(***************************************************************************)
PageReadyTimeout == 30
NewWindowTimeout == 120
PauseDelay == 5
WelcomePause == 3

None == "None"
URLs == {"http://a.example", "http://b.example"}
Blank == "about:blank"
Heights == 0..MaxHeight
ReadyStates == {"loading", "interactive", "complete"}

\* driver.page_source of the page at url u
PageSource(u) ==
    CASE u = "http://a.example" -> "<html>a</html>"
      [] u = "http://b.example" -> "<html>b</html>"
      [] OTHER -> "<html></html>"

(***************************************************************************)
(* The exceptions a browser command can raise, by class.                   *)
(***************************************************************************)
WaitTimedOut == "TimeoutException: Message: "
TimeoutExceptions == {WaitTimedOut, "TimeoutException: timeout: Timed out receiving message from renderer"}
NoSuchElementExceptions == {"NoSuchElementException: no such element"}
OtherExceptions == {"WebDriverException: unknown error: net::ERR_NAME_NOT_RESOLVED"}
CommandFailures ==
    (TimeoutExceptions \ {WaitTimedOut}) \cup NoSuchElementExceptions \cup OtherExceptions

IsTimeoutException(e) == e \in TimeoutExceptions
IsNoSuchElementException(e) == e \in NoSuchElementExceptions
\* every exception of the model is a subclass of Exception
IsException(e) == e # None


Fetch == "get_scraping_result"
Crawl == "get_crawling_scraping_result"
Scrollable == "is_vertical_scrollbar_present"
PageReady == "wait_until_page_ready"
Bootstrap == "get_webdriver"

windows == <<driver, handles, current, ext>>
doc == <<page, readyState, scrollHeight, clientHeight, scrollY>>
ctl == <<pc, exc, failed, outcome, ret>>
args == <<web_url, is_gambling_site>>
report == <<is_error, scraped_elements, exception_raised>>
heights == <<scroll_height, viewport_height>>
welcome == <<openedAt, openedEarly>>

Issue(c) == cmds' = Append(cmds, c)

(***************************************************************************)
(* Control flow.  An exception raised inside the try block of one of the   *)
(* two scraping functions goes to its except clauses; raised anywhere else *)
(* it reaches the caller.                                                  *)
(***************************************************************************)
Goto(l) == pc' = l /\ UNCHANGED <<exc, failed, outcome, ret>>

Raise(e) ==
    /\ exc' = e
    /\ failed' = e
    /\ ret' = ret
    /\ IF op \in {Fetch, Crawl}
       THEN pc' = "except" /\ outcome' = outcome
       ELSE pc' = "done" /\ outcome' = "raised"

Return(v) ==
    /\ pc' = "done"
    /\ outcome' = "returned"
    /\ ret' = {v}
    /\ exc' = None
    /\ failed' = failed

(***************************************************************************)
(* The result records.                                                     *)
(***************************************************************************)
provide_scraping_result_dict(url, gambling, err, elements, raised) ==
    [web_url |-> url,
     is_gambling_site |-> gambling,
     is_error |-> err,
     scraped_elements |-> elements,
     exception_raised |-> raised]

crawling_result_dict(url, err, elements, raised) ==
    [web_url |-> url,
     is_error |-> err,
     scraped_elements |-> elements,
     exception_raised |-> raised]

(***************************************************************************)
(* The caller.                                                             *)
(***************************************************************************)
Enter(f, u, g) ==
    /\ op = "idle"
    /\ op' = f
    /\ web_url' = u
    /\ is_gambling_site' = g
    /\ is_error' = TRUE
    /\ scraped_elements' = None
    /\ exception_raised' = None
    /\ scroll_height' = 0
    /\ viewport_height' = 0
    /\ current_handles' = <<>>
    /\ clock' = 0
    /\ exc' = None
    /\ failed' = None
    /\ outcome' = "running"
    /\ ret' = {}
    /\ cmds' = <<>>
    /\ slept' = 0
    /\ observed' = None
    /\ openedAt' = 0
    /\ openedEarly' = FALSE

call_get_scraping_result ==
    /\ driver
    /\ \E u \in URLs, g \in BOOLEAN : Enter(Fetch, u, g)
    /\ pc' = "get"
    /\ UNCHANGED browser

call_get_crawling_scraping_result ==
    /\ driver
    /\ \E u \in URLs : Enter(Crawl, u, FALSE)
    /\ pc' = "wait"
    /\ UNCHANGED browser

call_is_vertical_scrollbar_present ==
    /\ driver
    /\ Enter(Scrollable, None, FALSE)
    /\ pc' = "scroll_height"
    /\ UNCHANGED browser

call_wait_until_page_ready ==
    /\ driver
    /\ Enter(PageReady, None, FALSE)
    /\ pc' = "wait"
    /\ UNCHANGED browser

\* the caller takes the result (or the exception) and goes on
caller_resumes ==
    /\ op \in {Fetch, Crawl, Scrollable, PageReady}
    /\ pc = "done"
    /\ op' = "idle"
    /\ pc' = "idle"
    /\ web_url' = None
    /\ is_gambling_site' = FALSE
    /\ is_error' = TRUE
    /\ scraped_elements' = None
    /\ exception_raised' = None
    /\ scroll_height' = 0
    /\ viewport_height' = 0
    /\ clock' = 0
    /\ exc' = None
    /\ failed' = None
    /\ outcome' = "running"
    /\ ret' = {}
    /\ cmds' = <<>>
    /\ slept' = 0
    /\ observed' = None
    /\ UNCHANGED <<browser, current_handles, welcome>>

\* the crawler that drives the crawling flow follows a link between calls
crawler_navigates ==
    /\ driver
    /\ op = "idle"
    /\ \E u \in URLs, s \in {"loading", "complete"}, sh \in Heights, ch \in Heights :
        /\ page' = u
        /\ readyState' = s
        /\ scrollHeight' = sh
        /\ clientHeight' = ch
    /\ scrollY' = 0
    /\ UNCHANGED <<windows, op, ctl, locals, clock, history>>

(***************************************************************************)
(* The browser.                                                            *)
(***************************************************************************)
page_loads ==
    /\ driver
    /\ readyState # "complete"
    /\ readyState' = IF readyState = "loading" THEN "interactive" ELSE "complete"
    /\ UNCHANGED <<windows, page, scrollHeight, clientHeight, scrollY,
                   op, ctl, locals, clock, history>>

(***************************************************************************)
(* wait_until_page_ready: WebDriverWait(driver, 30).until(ready-state is   *)
(* "complete").  until() polls, sleeps, and gives up once the time is past *)
(* the timeout; it ignores NoSuchElementException raised by a poll.        *)
(***************************************************************************)
after_wait_until_page_ready ==
    IF op = PageReady THEN Return(None) ELSE Goto("sleep1")

wait_begin ==
    /\ op \in {Fetch, Crawl, PageReady}
    /\ pc = "wait"
    /\ clock' = 0
    /\ observed' = None
    /\ Issue("wait")
    /\ Goto("poll")
    /\ UNCHANGED <<browser, op, locals, slept, welcome>>

\* the wait is content with a document that is no longer loading
wait_poll_until_not_loading ==
    /\ op \in {Fetch, Crawl, PageReady}
    /\ pc = "poll"
    /\ \/ /\ observed' = readyState
          /\ IF readyState # "loading"
             THEN after_wait_until_page_ready
             ELSE Goto("poll_sleep")
       \/ /\ observed' = observed
          /\ \E e \in CommandFailures :
                IF IsNoSuchElementException(e) THEN Goto("poll_sleep") ELSE Raise(e)
    /\ UNCHANGED <<browser, op, locals, clock, cmds, slept, welcome>>

wait_poll ==
    /\ op \in {Fetch, Crawl, PageReady}
    /\ pc = "poll"
    /\ \/ /\ observed' = readyState
          /\ IF readyState = "complete"
             THEN after_wait_until_page_ready
             ELSE Goto("poll_sleep")
       \/ /\ observed' = observed
          /\ \E e \in CommandFailures :
                IF IsNoSuchElementException(e) THEN Goto("poll_sleep") ELSE Raise(e)
    /\ UNCHANGED <<browser, op, locals, clock, cmds, slept, welcome>>

wait_sleep ==
    /\ op \in {Fetch, Crawl, PageReady}
    /\ pc = "poll_sleep"
    /\ \E d \in 1..MaxTick :
        /\ clock' = clock + d
        /\ IF clock' > PageReadyTimeout THEN Raise(WaitTimedOut) ELSE Goto("poll")
    /\ UNCHANGED <<browser, op, locals, history>>

(***************************************************************************)
(* is_vertical_scrollbar_present                                           *)
(***************************************************************************)
\* the comparison is not strict
scroll_height_reaches(sh, vh) == sh >= vh

scroll_height_exceeds(sh, vh) == sh > vh

\* the scroll script is issued whatever the check says
after_scrollbar_check_always_scroll(b) ==
    IF op = Scrollable THEN Return(b) ELSE Goto("scroll")

after_is_vertical_scrollbar_present(b) ==
    IF op = Scrollable THEN Return(b)
    ELSE IF b THEN Goto("scroll") ELSE Goto("sleep2")

query_scroll_height ==
    /\ op \in {Fetch, Crawl, Scrollable}
    /\ pc = "scroll_height"
    /\ Issue("scrollHeight")
    /\ \/ scroll_height' = scrollHeight /\ Goto("client_height")
       \/ scroll_height' = scroll_height /\ \E e \in CommandFailures : Raise(e)
    /\ UNCHANGED <<browser, op, args, report, viewport_height, current_handles,
                   clock, slept, observed, welcome>>

query_client_height ==
    /\ op \in {Fetch, Crawl, Scrollable}
    /\ pc = "client_height"
    /\ Issue("clientHeight")
    /\ \/ /\ viewport_height' = clientHeight
          /\ after_is_vertical_scrollbar_present(
                scroll_height_exceeds(scroll_height, clientHeight))
       \/ viewport_height' = viewport_height /\ \E e \in CommandFailures : Raise(e)
    /\ UNCHANGED <<browser, op, args, report, scroll_height, current_handles,
                   clock, slept, observed, welcome>>

(***************************************************************************)
(* The statements the two scraping functions share, each written once and  *)
(* used by both.                                                           *)
(***************************************************************************)
time_sleep(at, to) ==
    /\ pc = at
    /\ slept' = slept + PauseDelay
    /\ Issue("sleep")
    /\ Goto(to)
    /\ UNCHANGED <<browser, op, locals, clock, observed, welcome>>

scroll_to_bottom ==
    /\ pc = "scroll"
    /\ Issue("scrollTo")
    /\ \/ /\ scrollY' = IF scrollHeight > clientHeight
                        THEN scrollHeight - clientHeight ELSE 0
          /\ Goto("sleep2")
       \/ scrollY' = scrollY /\ \E e \in CommandFailures : Raise(e)
    /\ UNCHANGED <<windows, page, readyState, scrollHeight, clientHeight,
                   op, locals, clock, slept, observed, welcome>>

\* the page source is kept although a later statement of the try block fails
read_page_source_then_fail ==
    /\ pc = "page_source"
    /\ Issue("page_source")
    /\ scraped_elements' = PageSource(page)
    /\ is_error' = is_error
    /\ \E e \in CommandFailures : Raise(e)
    /\ UNCHANGED <<browser, op, args, exception_raised, heights, current_handles,
                   clock, slept, observed, welcome>>

read_page_source ==
    /\ pc = "page_source"
    /\ Issue("page_source")
    /\ \/ /\ scraped_elements' = PageSource(page)
          /\ is_error' = FALSE
          /\ Goto("finally")
       \/ /\ UNCHANGED <<scraped_elements, is_error>>
          /\ \E e \in CommandFailures : Raise(e)
    /\ UNCHANGED <<browser, op, args, exception_raised, heights, current_handles,
                   clock, slept, observed, welcome>>

handled(text) ==
    /\ pc = "except"
    /\ exception_raised' = text
    /\ exc' = None
    /\ pc' = "finally"
    /\ UNCHANGED <<browser, op, args, is_error, scraped_elements, heights,
                   current_handles, clock, failed, outcome, ret, history>>

(***************************************************************************)
(* get_scraping_result                                                     *)
(***************************************************************************)
fetch_get ==
    /\ op = Fetch
    /\ pc = "get"
    /\ Issue("get")
    /\ \/ /\ page' = web_url
          /\ readyState' \in ReadyStates
          /\ scrollHeight' \in Heights
          /\ clientHeight' \in Heights
          /\ scrollY' = 0
          /\ Goto("wait")
       \/ /\ UNCHANGED doc
          /\ \E e \in CommandFailures : Raise(e)
    /\ UNCHANGED <<windows, op, locals, clock, slept, observed, welcome>>

\* the first pause is followed by the page-source retrieval
fetch_sleep1_then_page_source == op = Fetch /\ time_sleep("sleep1", "page_source")

fetch_sleep1 == op = Fetch /\ time_sleep("sleep1", "scroll_height")

fetch_scroll == op = Fetch /\ scroll_to_bottom

fetch_sleep2 == op = Fetch /\ time_sleep("sleep2", "page_source")

fetch_page_source == op = Fetch /\ read_page_source

\* the catch-all clause left out: what is no timeout goes on to the caller
fetch_except_without_catch_all ==
    /\ op = Fetch
    /\ pc = "except"
    /\ IF IsTimeoutException(exc)
       THEN handled("Timeout Exception")
       ELSE /\ pc' = "done"
            /\ outcome' = "raised"
            /\ UNCHANGED <<browser, op, locals, clock, exc, failed, ret, history>>

\* the clauses in the wrong order: the catch-all clause comes first
fetch_except_catch_all_first ==
    /\ op = Fetch
    /\ IsException(exc)
    /\ handled(exc)

\* a failed attempt is followed by another one
fetch_except_retries ==
    /\ op = Fetch
    /\ pc = "except"
    /\ exc' = None
    /\ pc' = "get"
    /\ UNCHANGED <<browser, op, locals, clock, failed, outcome, ret, history>>

fetch_except ==
    /\ op = Fetch
    /\ IF IsTimeoutException(exc)
       THEN handled("Timeout Exception")
       ELSE IsException(exc) /\ handled(exc)

fetch_finally ==
    /\ op = Fetch
    /\ pc = "finally"
    /\ Return(provide_scraping_result_dict(
            web_url, is_gambling_site, is_error, scraped_elements, exception_raised))
    /\ UNCHANGED <<browser, op, locals, clock, history>>

(***************************************************************************)
(* get_crawling_scraping_result                                            *)
(***************************************************************************)
crawl_sleep1 == op = Crawl /\ time_sleep("sleep1", "scroll_height")

crawl_scroll == op = Crawl /\ scroll_to_bottom

crawl_sleep2 == op = Crawl /\ time_sleep("sleep2", "page_source")

crawl_page_source == op = Crawl /\ read_page_source

\* the clause for NoSuchElementException left out, as in get_scraping_result
crawl_except_as_fetch ==
    /\ op = Crawl
    /\ IF IsTimeoutException(exc)
       THEN handled("Timeout Exception")
       ELSE IsException(exc) /\ handled(exc)

crawl_except ==
    /\ op = Crawl
    /\ IF IsTimeoutException(exc)
       THEN handled("Timeout Exception")
       ELSE IF IsNoSuchElementException(exc)
       THEN handled("The web is not loaded")
       ELSE IsException(exc) /\ handled(exc)

crawl_finally ==
    /\ op = Crawl
    /\ pc = "finally"
    /\ Return(crawling_result_dict(
            web_url, is_error, scraped_elements, exception_raised))
    /\ UNCHANGED <<browser, op, locals, clock, history>>

(***************************************************************************)
(* get_webdriver.  Chrome starts with the ad-block extension installed;    *)
(* the extension opens its welcome tab some time after.                    *)
(***************************************************************************)
call_get_webdriver ==
    /\ ~driver
    /\ handles = <<>>
    /\ Enter(Bootstrap, None, FALSE)
    /\ pc' = "read_handles"
    /\ handles' = <<"main">>
    /\ current' = "main"
    /\ ext' = "pending"
    /\ page' = Blank
    /\ readyState' = "complete"
    /\ UNCHANGED <<driver, scrollHeight, clientHeight, scrollY>>

extension_opens_welcome_tab ==
    /\ op = Bootstrap
    /\ pc # "done"
    /\ ext = "pending"
    /\ handles' = Append(handles, "welcome")
    /\ ext' = "open"
    /\ openedAt' = clock
    /\ openedEarly' = (pc = "read_handles")
    /\ UNCHANGED <<driver, current, doc, op, ctl, locals, clock,
                   cmds, slept, observed>>

\* the argument of EC.new_window_is_opened is evaluated before the wait starts
bootstrap_read_handles ==
    /\ op = Bootstrap
    /\ pc = "read_handles"
    /\ current_handles' = handles
    /\ clock' = 0
    /\ Goto("new_window_poll")
    /\ UNCHANGED <<browser, op, args, report, heights, history>>

new_window_is_opened(known) == Len(handles) > Len(known)

bootstrap_poll ==
    /\ op = Bootstrap
    /\ pc = "new_window_poll"
    /\ IF new_window_is_opened(current_handles)
       THEN Goto("sleep3")
       ELSE Goto("new_window_sleep")
    /\ UNCHANGED <<browser, op, locals, clock, history>>

bootstrap_wait_sleep ==
    /\ op = Bootstrap
    /\ pc = "new_window_sleep"
    /\ \E d \in 1..MaxTick :
        /\ clock' = clock + d
        /\ IF clock' > NewWindowTimeout
           THEN Raise(WaitTimedOut)
           ELSE Goto("new_window_poll")
    /\ UNCHANGED <<browser, op, locals, history>>

bootstrap_sleep3 ==
    /\ op = Bootstrap
    /\ pc = "sleep3"
    /\ slept' = slept + WelcomePause
    /\ Goto("switch1")
    /\ UNCHANGED <<browser, op, locals, clock, cmds, observed, welcome>>

bootstrap_switch1 ==
    /\ op = Bootstrap
    /\ pc = "switch1"
    /\ current' = handles[2]
    /\ Goto("close")
    /\ UNCHANGED <<driver, handles, ext, doc, op, locals, clock, history>>

bootstrap_close ==
    /\ op = Bootstrap
    /\ pc = "close"
    /\ handles' = SelectSeq(handles, LAMBDA h : h # current)
    /\ ext' = IF current = "welcome" THEN "closed" ELSE ext
    /\ current' = None
    /\ Goto("switch0")
    /\ UNCHANGED <<driver, doc, op, locals, clock, history>>

bootstrap_switch0 ==
    /\ op = Bootstrap
    /\ pc = "switch0"
    /\ current' = handles[1]
    /\ driver' = TRUE
    /\ Return("driver")
    /\ UNCHANGED <<handles, ext, doc, op, locals, clock, history>>

\* the caller takes the session and starts to use it
bootstrap_resumes ==
    /\ op = Bootstrap
    /\ pc = "done"
    /\ outcome = "returned"
    /\ op' = "idle"
    /\ pc' = "idle"
    /\ clock' = 0
    /\ slept' = 0
    /\ current_handles' = <<>>
    /\ outcome' = "running"
    /\ ret' = {}
    /\ openedAt' = 0
    /\ openedEarly' = FALSE
    /\ failed' = None
    /\ UNCHANGED <<browser, args, report, heights, exc, cmds, observed>>

(***************************************************************************)
(* The specification.                                                      *)
(***************************************************************************)
Init ==
    /\ driver = FALSE
    /\ handles = <<>>
    /\ current = None
    /\ ext = "none"
    /\ page = Blank
    /\ readyState = "complete"
    /\ scrollHeight \in Heights
    /\ clientHeight \in Heights
    /\ scrollY = 0
    /\ op = "idle"
    /\ pc = "idle"
    /\ web_url = None
    /\ is_gambling_site = FALSE
    /\ is_error = TRUE
    /\ scraped_elements = None
    /\ exception_raised = None
    /\ scroll_height = 0
    /\ viewport_height = 0
    /\ current_handles = <<>>
    /\ clock = 0
    /\ exc = None
    /\ failed = None
    /\ outcome = "running"
    /\ ret = {}
    /\ cmds = <<>>
    /\ slept = 0
    /\ observed = None
    /\ openedAt = 0
    /\ openedEarly = FALSE

Next ==
    \/ call_get_webdriver
    \/ extension_opens_welcome_tab
    \/ bootstrap_read_handles
    \/ bootstrap_poll
    \/ bootstrap_wait_sleep
    \/ bootstrap_sleep3
    \/ bootstrap_switch1
    \/ bootstrap_close
    \/ bootstrap_switch0
    \/ bootstrap_resumes
    \/ call_get_scraping_result
    \/ call_get_crawling_scraping_result
    \/ call_is_vertical_scrollbar_present
    \/ call_wait_until_page_ready
    \/ caller_resumes
    \/ crawler_navigates
    \/ page_loads
    \/ wait_begin
    \/ wait_poll
    \/ wait_sleep
    \/ query_scroll_height
    \/ query_client_height
    \/ fetch_get
    \/ fetch_sleep1
    \/ fetch_scroll
    \/ fetch_sleep2
    \/ fetch_page_source
    \/ fetch_except
    \/ fetch_finally
    \/ crawl_sleep1
    \/ crawl_scroll
    \/ crawl_sleep2
    \/ crawl_page_source
    \/ crawl_except
    \/ crawl_finally

Spec == Init /\ [][Next]_vars

(***************************************************************************)
(* What the history of a call says.                                        *)
(***************************************************************************)
Count(c) == Cardinality({i \in 1..Len(cmds) : cmds[i] = c})

LastCommand == IF cmds = <<>> THEN None ELSE cmds[Len(cmds)]

IsPrefix(s, t) == Len(s) <= Len(t) /\ \A i \in 1..Len(s) : s[i] = t[i]

FetchReturned == op = Fetch /\ pc = "done"

CrawlReturned == op = Crawl /\ pc = "done"

\* the ready-state wait of the running call timed out
ReadyWaitTimedOut == failed = WaitTimedOut /\ LastCommand = "wait"

fetch_step ==
    \/ fetch_get \/ wait_begin \/ wait_poll \/ wait_sleep \/ fetch_sleep1
    \/ query_scroll_height \/ query_client_height \/ fetch_scroll
    \/ fetch_sleep2 \/ fetch_page_source \/ fetch_except \/ fetch_finally

(***************************************************************************)
(* C1.  get_scraping_result never fails outright: whichever command of the *)
(* browser raises, no exception reaches the caller; a call that is not     *)
(* over can take its next step, and a call that is over has returned one   *)
(* result record.                                                          *)
(***************************************************************************)
FetchNeverRaises ==
    op = Fetch =>
        /\ outcome # "raised"
        /\ pc # "done" => ENABLED fetch_step
        /\ pc = "done" =>
            /\ outcome = "returned"
            /\ exc = None
            /\ Cardinality(ret) = 1
            /\ \A r \in ret : r.web_url = web_url

\* the page-source retrieval, the last step, raised and a record was returned
FetchReturnedAfterFailure ==
    /\ FetchReturned
    /\ outcome = "returned"
    /\ failed \in OtherExceptions
    /\ LastCommand = "page_source"

FetchErrorAsClaimed ==
    FetchReturned /\ failed # None =>
        \A r \in ret :
            IF ReadyWaitTimedOut
            THEN r.exception_raised = "Timeout"
            ELSE r.exception_raised = failed

(***************************************************************************)
(* C3, amended.  The error of a fetch that failed with a timeout           *)
(* exception, raised by the ready-state wait or by any other command, is   *)
(* "Timeout Exception"; the error of a fetch that failed in any other way  *)
(* is the exception raised.                                                *)
(***************************************************************************)
FetchErrorClassification ==
    FetchReturned /\ failed # None =>
        \A r \in ret :
            /\ ReadyWaitTimedOut => r.exception_raised = "Timeout Exception"
            /\ IsTimeoutException(failed) => r.exception_raised = "Timeout Exception"
            /\ ~IsTimeoutException(failed) => r.exception_raised = failed

\* the ready-state wait timed out and the record says "Timeout Exception"
FetchTimedOut ==
    /\ FetchReturned
    /\ ReadyWaitTimedOut
    /\ clock > PageReadyTimeout
    /\ \A r \in ret : r.exception_raised = "Timeout Exception"

\* both queries of the scroll check of the running call were answered
ScrollCheckDone ==
    /\ Count("clientHeight") = 1
    /\ pc # "client_height"
    /\ ~(failed # None /\ LastCommand = "clientHeight")

ScrollScriptAsChecked ==
    Count("scrollTo") = IF scroll_height > viewport_height THEN 1 ELSE 0

ScrollbarCheckResult ==
    op = Scrollable /\ pc = "done" /\ outcome = "returned" =>
        /\ ret = {scrollHeight > clientHeight}
        /\ cmds = <<"scrollHeight", "clientHeight">>

\* a step of the function itself (the page may go on loading meanwhile)
ScrollbarCheckStep ==
    pc \in {"scroll_height", "client_height"} /\ pc' # pc =>
        /\ UNCHANGED <<browser>>
        /\ Len(cmds') = Len(cmds) + 1

ScrollbarCheckIsPureQuery == []ScrollbarCheckResult /\ [][ScrollbarCheckStep]_vars

\* the check returned false on a page whose two heights are equal
ScrollbarCheckEqualHeights ==
    /\ op = Scrollable
    /\ pc = "done"
    /\ ret = {FALSE}
    /\ scrollHeight = clientHeight
    /\ scrollHeight > 0

(***************************************************************************)
(* C6.  wait_until_page_ready returns only when a poll has reported        *)
(* "complete", and returns as soon as one has; it raises its timeout only  *)
(* once more than 30 time units went by without such a poll, and does not  *)
(* poll again after that.                                                  *)
(***************************************************************************)
PageReadyWait ==
    op = PageReady =>
        /\ pc = "done" /\ outcome = "returned" =>
                observed = "complete" /\ readyState = "complete" /\ ret = {None}
        /\ pc = "done" /\ exc = WaitTimedOut =>
                outcome = "raised" /\ clock > PageReadyTimeout /\ observed # "complete"
        /\ pc \in {"poll", "poll_sleep"} =>
                clock <= PageReadyTimeout /\ observed # "complete"
        /\ pc = "done" => outcome \in {"returned", "raised"}
        /\ pc = "done" /\ clock > PageReadyTimeout /\ observed # "complete" =>
                outcome = "raised" /\ exc = WaitTimedOut

\* the wait returned after polls that did not report "complete"
PageReadyAfterWaiting ==
    /\ op = PageReady
    /\ pc = "done"
    /\ outcome = "returned"
    /\ clock > 0

(***************************************************************************)
(* C7.  One call of get_scraping_result navigates once and starts the      *)
(* ready-state wait at most once, whether or not a command raises.         *)
(***************************************************************************)
FetchSingleAttempt ==
    op = Fetch =>
        /\ Count("get") = IF pc = "get" THEN 0 ELSE 1
        /\ Count("wait") <= 1
        /\ failed # None => pc \in {"except", "finally", "done"}

\* a fetch that failed after its wait, and navigated once
FetchFailedOnce ==
    /\ FetchReturned
    /\ failed # None
    /\ Count("get") = 1
    /\ Count("wait") = 1
    /\ LastCommand # "wait"

(***************************************************************************)
(* C8.  The commands of one call of get_scraping_result are a prefix of    *)
(* get, wait, pause, scroll-height query, viewport-height query, (scroll   *)
(* script), pause, page source; the page source is read only after a poll  *)
(* reported "complete" and both pauses; once a command raised, no other    *)
(* command is issued.                                                      *)
(***************************************************************************)
FetchSequence(scrolls) ==
    <<"get", "wait", "sleep", "scrollHeight", "clientHeight">>
        \o (IF scrolls THEN <<"scrollTo">> ELSE <<>>)
        \o <<"sleep", "page_source">>

FetchCommandsInOrder ==
    op = Fetch =>
        /\ \E scrolls \in BOOLEAN : IsPrefix(cmds, FetchSequence(scrolls))
        /\ Count("page_source") = 1 =>
                observed = "complete" /\ slept = PauseDelay + PauseDelay
        /\ Count("sleep") >= 1 => observed = "complete"

FetchNothingAfterFailure ==
    op = Fetch /\ failed # None /\ op' = Fetch =>
        /\ cmds' = cmds
        /\ scraped_elements' = scraped_elements

FetchCommandOrder == []FetchCommandsInOrder /\ [][FetchNothingAfterFailure]_vars

\* a fetch that issued the whole sequence, scroll script included
FetchIssuedAll ==
    /\ FetchReturned
    /\ cmds = FetchSequence(TRUE)
    /\ failed = None

(***************************************************************************)
(* C9.  A call of get_webdriver during which the extension opened its      *)
(* welcome tab within 120 time units, at whatever moment, ends with the    *)
(* tab closed, the session on the original window and no timeout raised.   *)
(***************************************************************************)
BootstrapDismissesWelcomeTab ==
    op = Bootstrap /\ pc = "done" /\ ext # "pending" /\ openedAt < NewWindowTimeout =>
        /\ outcome = "returned"
        /\ ext = "closed"
        /\ handles = <<"main">>
        /\ current = "main"

(***************************************************************************)
(* C10.  As claimed: in get_crawling_scraping_result a missing element is  *)
(* reported as "ElementNotFound", a ready-state timeout as "Timeout" and   *)
(* any other failure as its description; get_scraping_result reports a     *)
(* missing element as its description; the crawling call does not          *)
(* navigate.                                                               *)
(***************************************************************************)
CrawlErrorAsClaimed ==
    /\ CrawlReturned /\ failed # None =>
        \A r \in ret :
            /\ r.is_error /\ r.scraped_elements = None
            /\ r.exception_raised =
                    IF IsNoSuchElementException(failed) THEN "ElementNotFound"
                    ELSE IF ReadyWaitTimedOut THEN "Timeout"
                    ELSE failed
    /\ FetchReturned /\ IsNoSuchElementException(failed) =>
        \A r \in ret : r.exception_raised = failed
    /\ op = Crawl => Count("get") = 0

(***************************************************************************)
(* C10, amended.  In get_crawling_scraping_result a missing element is     *)
(* reported as "The web is not loaded", a timeout exception (of the        *)
(* ready-state wait or of another command) as "Timeout Exception" and any  *)
(* other failure as the exception raised, each with is_error true and no   *)
(* page source; get_scraping_result reports a missing element as the       *)
(* exception raised; no step of the crawling call navigates.               *)
(***************************************************************************)
CrawlErrorsInState ==
    /\ CrawlReturned /\ failed # None =>
        \A r \in ret :
            /\ r.is_error /\ r.scraped_elements = None
            /\ r.exception_raised =
                    IF IsNoSuchElementException(failed) THEN "The web is not loaded"
                    ELSE IF IsTimeoutException(failed) THEN "Timeout Exception"
                    ELSE failed
    /\ FetchReturned /\ IsNoSuchElementException(failed) =>
        \A r \in ret : r.exception_raised = failed
    /\ op = Crawl => Count("get") = 0

CrawlDoesNotNavigate == op = Crawl /\ op' = Crawl => page' = page

CrawlErrorClassification == []CrawlErrorsInState /\ [][CrawlDoesNotNavigate]_vars

\* a crawling call that failed on a missing element
CrawlElementMissing ==
    /\ CrawlReturned
    /\ IsNoSuchElementException(failed)
    /\ \A r \in ret : r.exception_raised = "The web is not loaded"

=============================================================================
